---- MODULE Spec2Model ----
(***************************************************************************)
(* A model of ruvnl_consumer_app/app.py: the fetch - merge - persist       *)
(* pipeline of the RUVNL consumer (get_sites, fetch_data,                  *)
(* merge_generation_data_with_sites, save_generation_data, app).           *)
(*                                                                         *)
(* A data frame is a sequence of records.  start_utc is carried through    *)
(* the pipeline unchanged and nothing branches on it except the "wind"     *)
(* staleness warning, which only logs; it is left out of the records.      *)
(***************************************************************************)
EXTENDS Integers, Sequences, FiniteSets

(* ------------------------------ bounds -------------------------------- *)

\* longest registry (list returned by get_sites_by_country)
MaxSites == 2

\* largest Average2 (MW) a payload record carries; the smallest is -1
MaxMW == 1

\* longest "data" list of a payload
MaxPayload == 2

\* longest frame handed to a direct call of merge / save
MaxRows == 2

(* --------------------------- program constants ------------------------- *)

max_retries == 5

HTTP_OK == 200

MW_TO_KW == 1000

\* capacity_kw of the sites the test database is seeded with
SeededCapacity == 4

VARIABLES
    all_sites,      \* the registry: sequence of [location_uuid, asset_type, region]
    capacity_kw,    \* committed LocationSQL.capacity_kw, by location_uuid
    generation,     \* committed rows of the generation table
    pc,             \* position of the run ("test_merge" / "test_save": direct calls)
    error,          \* the exception that ended the run, or "none"
    log,            \* messages logged by the last operation
    sites,          \* result of get_sites
    retries,        \* fetch_data: retries counter
    requests,       \* fetch_data: what each requests.get so far did: the exception
                    \* it raised, or "response"
    response,       \* fetch_data: <<r.status_code>>, <<>> while r is unbound
    sleeps,         \* fetch_data: number of time.sleep(retry_interval) calls
    raw_data,       \* fetch_data: r.json()["data"], <<>> before a payload is parsed
    data,           \* the frame handed from fetch to merge to save
    merge_in,       \* history: the frame merge was called with
    write_to_db,    \* the --write-to-db flag (argument of save_generation_data)
    insert_fails,   \* history: asset types whose insert_generation_values raises
    cap_before,     \* history: capacity_kw when save_generation_data was entered
    gen_before,     \* history: generation when save_generation_data was entered
    runs,           \* concurrent runs: each run's position in save_generation_data,
                    \* its frame, its loop index and the capacity its query read
    cap_commits     \* history: the capacity commits of concurrent runs, in order

vars == <<all_sites, capacity_kw, generation, pc, error, log, sites, retries,
          requests, response, sleeps, raw_data, data, merge_in, write_to_db, insert_fails,
          cap_before, gen_before, runs, cap_commits>>

\* the variables only concurrent runs change
race_vars == <<runs, cap_commits>>

(* ------------------------------ data ---------------------------------- *)

\* the loops of get_sites and save_generation_data run over ["pv", "wind"]
AssetTypes == <<"pv", "wind">>

AssetTypeSet == {AssetTypes[i] : i \in DOMAIN AssetTypes}

Regions == {"ruvnl", "other"}

\* None, as a site_uuid (no site has location_uuid 0)
NoSite == 0

\* None, as the position of a payload record
NoRecord == 0

SeqsUpTo(S, n) == UNION {[1..k -> S] : k \in 0..n}

\* Average2 values (MW) a payload record carries: negative, zero, positive
SourceMW == (-1)..MaxMW

\* power values in kW: the fetched ones are 1000 * MW
Powers == {MW_TO_KW * mw : mw \in {m \in SourceMW : m >= 0}}

\* registries: site i has location_uuid i
Registries ==
    {r \in SeqsUpTo([location_uuid : 1..MaxSites, asset_type : AssetTypeSet,
                     region : Regions], MaxSites) :
        \A i \in DOMAIN r : r[i].location_uuid = i}

\* the two sites the test database is seeded with
FixtureSites ==
    << [location_uuid |-> 1, asset_type |-> "pv", region |-> "ruvnl"],
       [location_uuid |-> 2, asset_type |-> "wind", region |-> "ruvnl"] >>

Uuids == {all_sites[i].location_uuid : i \in DOMAIN all_sites}

\* frames of associated records; uuid Len(all_sites)+1 is in no registry
AssociatedFrames ==
    SeqsUpTo([asset_type : AssetTypeSet, power_kw : Powers,
              site_uuid : 1..(Len(all_sites) + 1)], MaxRows)

(* ----------------------- save_generation_data -------------------------- *)

\* asset_data["power_kw"].max()
RECURSIVE MaxPower(_)
MaxPower(frame) ==
    IF Len(frame) = 1 THEN frame[1].power_kw
    ELSE LET m == MaxPower(Tail(frame))
         IN  IF frame[1].power_kw > m THEN frame[1].power_kw ELSE m

\* generation_data[generation_data["asset_type"] == asset_type]
AssetData(frame, asset_type) ==
    SelectSeq(frame, LAMBDA rec : rec.asset_type = asset_type)

\* db_session.commit(): the session's pending state becomes the committed one
Commit(st) == [st EXCEPT !.cap = st.s_cap, !.gen = st.s_gen]

\* the session is closed by an exception: pending changes are discarded
Rollback(st) == [st EXCEPT !.s_cap = st.cap, !.s_gen = st.gen]

\* the rows insert_generation_values writes (asset_type is dropped before the
\* call; "group" is history, the group the row was inserted from)
Rows(asset_data, asset_type) ==
    {[site_uuid |-> asset_data[i].site_uuid, power_kw |-> asset_data[i].power_kw,
      group |-> asset_type] : i \in DOMAIN asset_data}

\* variant: the capacity is left for the commit that follows the insert
CapacityCorrectionNoCommit(st, asset_data) ==
    LET site_uuid == asset_data[1].site_uuid
        max_power == MaxPower(asset_data)
    IN  IF site_uuid \in DOMAIN st.s_cap /\ max_power > st.s_cap[site_uuid]
        THEN [st EXCEPT !.s_cap[site_uuid] = max_power,
                        !.log = @ \cup {<<"info", "Updating capacity", site_uuid>>}]
        ELSE st

\* variant: the capacity is set to the group's maximum without comparing
CapacityCorrectionAlways(st, asset_data) ==
    LET site_uuid == asset_data[1].site_uuid
        max_power == MaxPower(asset_data)
    IN  IF site_uuid \in DOMAIN st.s_cap
        THEN Commit([st EXCEPT !.s_cap[site_uuid] = max_power])
        ELSE st

\* lines 181-193: raise the site's capacity to the group's maximum and commit
CapacityCorrection(st, asset_data) ==
    LET site_uuid == asset_data[1].site_uuid
        max_power == MaxPower(asset_data)
    IN  IF site_uuid \in DOMAIN st.s_cap /\ max_power > st.s_cap[site_uuid]
        THEN Commit([st EXCEPT !.s_cap[site_uuid] = max_power,
                               !.log = @ \cup {<<"info", "Updating capacity", site_uuid>>}])
        ELSE st

\* lines 199-200: insert_generation_values raises, or the rows are committed
InsertGenerationValues(st, asset_data, asset_type, fails) ==
    IF asset_type \in fails
    THEN [Rollback(st) EXCEPT !.exc = "InsertError"]
    ELSE Commit([st EXCEPT !.s_gen = @ \cup Rows(asset_data, asset_type)])

\* variant: the capacity correction is not guarded by write_to_db
SaveGroupUnguarded(st, frame, asset_type, write, fails) ==
    LET asset_data == AssetData(frame, asset_type)
    IN  IF st.exc # "none" THEN st
        ELSE IF asset_data = <<>>
        THEN [st EXCEPT !.log = @ \cup {<<"warning", "No generation data", asset_type>>}]
        ELSE LET st1 == CapacityCorrection(st, asset_data)
             IN  IF write
                 THEN InsertGenerationValues(st1, asset_data, asset_type, fails)
                 ELSE [st1 EXCEPT !.log = @ \cup {<<"info", "Generation data", asset_type>>}]

\* lines 173-202: the body of the loop for one asset type
SaveGroup(st, frame, asset_type, write, fails) ==
    LET asset_data == AssetData(frame, asset_type)
    IN  IF st.exc # "none" THEN st
        ELSE IF asset_data = <<>>
        THEN [st EXCEPT !.log = @ \cup {<<"warning", "No generation data", asset_type>>}]
        ELSE LET st1 == IF write THEN CapacityCorrection(st, asset_data) ELSE st
             IN  IF write
                 THEN InsertGenerationValues(st1, asset_data, asset_type, fails)
                 ELSE [st1 EXCEPT !.log = @ \cup {<<"info", "Generation data", asset_type>>}]

\* the loop over ["pv", "wind"], from asset type number i on
RECURSIVE SaveLoop(_, _, _, _, _)
SaveLoop(st, frame, i, write, fails) ==
    IF i > Len(AssetTypes) THEN st
    ELSE SaveLoop(SaveGroup(st, frame, AssetTypes[i], write, fails),
                  frame, i + 1, write, fails)

\* save_generation_data(db_session, generation_data, write_to_db) on the store
\* (cap, gen): the store and the messages it leaves, and the exception raised
save_generation_data(cap, gen, frame, write, fails) ==
    SaveLoop([cap |-> cap, gen |-> gen, s_cap |-> cap, s_gen |-> gen,
              log |-> {}, exc |-> "none"], frame, 1, write, fails)

(* ------------------------------ get_sites ------------------------------ *)

\* [s for s in all_sites if s.asset_type.name == asset_type and s.region == "ruvnl"]
SitesOf(all, asset_type) ==
    SelectSeq(all, LAMBDA s : s.asset_type = asset_type /\ s.region = "ruvnl")

\* variant: the asset type is skipped with the warning alone
MissingSiteSkipped(st, asset_type, optimized) ==
    [st EXCEPT !.log = @ \cup {<<"warning", "Could not find site", asset_type>>}]

\* lines 60-62: no site of the asset type: the warning, then the assert fails
\* (under python -O the assert is stripped and sites[0] raises IndexError)
MissingSite(st, asset_type, optimized) ==
    [st EXCEPT !.log = @ \cup {<<"warning", "Could not find site", asset_type>>},
               !.exc = IF optimized THEN "IndexError" ELSE "AssertionError"]

\* lines 55-64: the loop over ["pv", "wind"], from asset type number i on
RECURSIVE GetSitesLoop(_, _, _, _)
GetSitesLoop(st, all, i, optimized) ==
    IF i > Len(AssetTypes) \/ st.exc # "none" THEN st
    ELSE LET found == SitesOf(all, AssetTypes[i])
             st1   == IF Len(found) = 0
                      THEN MissingSite(st, AssetTypes[i], optimized)
                      ELSE [st EXCEPT !.valid_sites = Append(@, found[1])]
         IN  GetSitesLoop(st1, all, i + 1, optimized)

\* get_sites(db_session): valid_sites, the messages logged, the exception raised
get_sites(all, optimized) ==
    GetSitesLoop([valid_sites |-> <<>>, log |-> {}, exc |-> "none"], all, 1, optimized)

(* ------------------------------ fetch_data ----------------------------- *)

\* what requests.get raises at the network level here (ReadTimeout is handled
\* as ConnectTimeout is)
NetworkErrors == {"ConnectTimeout", "ConnectionError"}

\* status codes of a response
StatusCodes == {HTTP_OK, 404, 500}

ScadaNames == {"WIND GEN", "SOLAR GEN", "OTHER"}

\* r.json()["data"]: the d["0"] records
Payloads == SeqsUpTo([scada_name : ScadaNames, Average2 : SourceMW], MaxPayload)

\* asset_map, in its iteration order
asset_map == << <<"WIND GEN", "wind">>, <<"SOLAR GEN", "pv">> >>

\* line 91: except requests.exceptions.Timeout (ConnectTimeout and ReadTimeout
\* derive from it, ConnectionError does not)
IsTimeout(e) == e \in {"ConnectTimeout", "ReadTimeout"}

\* variant: the sleep comes before the test for the last retry
OnTimeoutSleepsFirst(r, s) ==
    IF r + 1 = max_retries
    THEN [retries |-> r + 1, sleeps |-> s + 1, exc |-> "RuntimeError"]
    ELSE [retries |-> r + 1, sleeps |-> s + 1, exc |-> "none"]

\* lines 92-99: the except branch, with retries = r and s sleeps so far
OnTimeout(r, s) ==
    IF r + 1 = max_retries
    THEN [retries |-> r + 1, sleeps |-> s, exc |-> "RuntimeError"]
    ELSE [retries |-> r + 1, sleeps |-> s + 1, exc |-> "none"]

\* line 110: next((d["0"] for d in raw_data["data"] if ... == k), None)
\* (the position in raw of the first record named k)
FirstRecord(raw, k) ==
    LET found == {i \in DOMAIN raw : raw[i].scada_name = k}
    IN  IF found = {} THEN NoRecord
        ELSE CHOOSE i \in found : \A j \in found : i <= j

\* variant: negative power is not rejected
ExtractKeepsNegative(st, raw, k, v) ==
    LET record == FirstRecord(raw, k)
    IN  IF record # NoRecord
        THEN [st EXCEPT !.data = Append(@, [asset_type |-> v,
                                            power_kw |-> raw[record].Average2 * MW_TO_KW])]
        ELSE st

\* lines 110-133: the loop body for source name k, asset type v
Extract(st, raw, k, v) ==
    LET record == FirstRecord(raw, k)
    IN  IF record # NoRecord
        THEN LET power_kw == raw[record].Average2 * MW_TO_KW
             IN  IF power_kw < 0
                 THEN [st EXCEPT !.log = @ \cup {<<"warning", "Ignoring negative power", v>>}]
                 ELSE [st EXCEPT !.data = Append(@, [asset_type |-> v, power_kw |-> power_kw]),
                                 !.log = @ \cup {<<"info", "Found generation data", v>>}]
        ELSE [st EXCEPT !.log = @ \cup {<<"warning", "No generation data", v>>}]

\* lines 106-135: the loop over asset_map, from entry i on
RECURSIVE ExtractLoop(_, _, _)
ExtractLoop(st, raw, i) ==
    IF i > Len(asset_map) THEN st
    ELSE ExtractLoop(Extract(st, raw, asset_map[i][1], asset_map[i][2]), raw, i + 1)

\* the frame fetch_data builds from a decoded payload, and the messages logged
ParsePayload(raw) == ExtractLoop([data |-> <<>>, log |-> {}], raw, 1)

(* ------------------- merge_generation_data_with_sites ------------------ *)

\* sites_map = {s.asset_type.name: s.location_uuid for s in sites}: a later
\* site of the same asset type replaces an earlier one
RECURSIVE SitesMap(_)
SitesMap(ss) ==
    IF ss = <<>> THEN [a \in {} |-> NoSite]
    ELSE LET last == ss[Len(ss)]
             rest == SitesMap(SubSeq(ss, 1, Len(ss) - 1))
         IN  [a \in DOMAIN rest \cup {last.asset_type} |->
                 IF a = last.asset_type THEN last.location_uuid ELSE rest[a]]

\* line 152: the site_uuid column
WithSiteUuid(frame, ss) ==
    LET sites_map == SitesMap(ss)
    IN  [i \in DOMAIN frame |->
            [asset_type |-> frame[i].asset_type, power_kw |-> frame[i].power_kw,
             site_uuid |-> IF frame[i].asset_type \in DOMAIN sites_map
                           THEN sites_map[frame[i].asset_type] ELSE NoSite]]

\* variant: the records without a site are not removed
merge_keeps_unassociated(frame, ss) == WithSiteUuid(frame, ss)

\* merge_generation_data_with_sites(data, sites)
merge_generation_data_with_sites(frame, ss) ==
    SelectSeq(WithSiteUuid(frame, ss), LAMBDA rec : rec.site_uuid # NoSite)

(* ------------------------------- states -------------------------------- *)

\* direct calls of merge read no region: one region is enough there
TestRegistries == {reg \in Registries : \A i \in DOMAIN reg : reg[i].region = "ruvnl"}

\* a run of app() starts on a store with any registry, each site with the
\* capacity sites are seeded with
InitApp ==
    /\ pc = "get_sites"
    /\ all_sites \in Registries
    /\ capacity_kw = [u \in Uuids |-> SeededCapacity]
    /\ write_to_db \in BOOLEAN

\* a test calls merge_generation_data_with_sites with the sites of the store
InitTestMerge ==
    /\ pc = "test_merge"
    /\ all_sites \in TestRegistries
    /\ capacity_kw = [u \in Uuids |-> SeededCapacity]
    /\ write_to_db = FALSE

\* a test calls save_generation_data on the seeded store, the sites having any
\* capacities (those an earlier call can have left)
InitTestSave ==
    /\ pc = "test_save"
    /\ all_sites = FixtureSites
    /\ capacity_kw \in [Uuids -> Powers]
    /\ write_to_db = FALSE

\* one run at a time: no concurrent runs
NoRuns ==
    /\ runs = <<>>
    /\ cap_commits = <<>>

Init ==
    /\ (InitApp \/ InitTestMerge \/ InitTestSave)
    /\ NoRuns
    /\ generation = {}
    /\ error = "none"
    /\ log = {}
    /\ sites = <<>>
    /\ retries = 0
    /\ requests = <<>>
    /\ response = <<>>
    /\ sleeps = 0
    /\ raw_data = <<>>
    /\ data = <<>>
    /\ merge_in = <<>>
    /\ insert_fails = {}
    /\ cap_before = capacity_kw
    /\ gen_before = generation

fetch_vars == <<retries, requests, response, sleeps, raw_data>>

db_vars == <<capacity_kw, generation>>

save_history == <<insert_fails, cap_before, gen_before>>

(* ------------------------------ app(): steps --------------------------- *)

\* lines 238-242: step 1, get_sites(session)
GetSites ==
    /\ pc = "get_sites"
    /\ \E optimized \in BOOLEAN :
        LET res == get_sites(all_sites, optimized)
        IN  /\ log' = res.log
            /\ error' = res.exc
            /\ sites' = IF res.exc = "none" THEN res.valid_sites ELSE sites
            /\ pc' = IF res.exc = "none" THEN "fetch" ELSE "failed"
    /\ UNCHANGED <<all_sites, race_vars, db_vars, fetch_vars, data, merge_in, write_to_db,
                   save_history>>

\* lines 86-99: one requests.get that raises e
FetchRaises(e) ==
    /\ pc = "fetch"
    /\ retries < max_retries
    /\ requests' = Append(requests, e)
    /\ IF IsTimeout(e)
       THEN LET res == OnTimeout(retries, sleeps)
            IN  /\ retries' = res.retries
                /\ sleeps' = res.sleeps
                /\ error' = res.exc
                /\ pc' = IF res.exc # "none" THEN "failed" ELSE "fetch"
                /\ log' = {<<"error", "Timed out">>}
       ELSE /\ error' = e
            /\ pc' = "failed"
            /\ UNCHANGED <<retries, sleeps, log>>
    /\ UNCHANGED <<all_sites, race_vars, db_vars, sites, response, raw_data, data, merge_in, write_to_db,
                   save_history>>

\* lines 88-90, 102-104: a response with a status code other than 200
\* variant: a status code other than 200 raises, as r.raise_for_status() would
FetchBadStatusRaises(status) ==
    /\ pc = "fetch"
    /\ retries < max_retries
    /\ status # HTTP_OK
    /\ requests' = Append(requests, "response")
    /\ response' = <<status>>
    /\ error' = "HTTPError"
    /\ pc' = "failed"
    /\ UNCHANGED <<all_sites, race_vars, db_vars, log, sites, retries, sleeps, raw_data, data,
                   merge_in, write_to_db, save_history>>

FetchBadStatus(status) ==
    /\ pc = "fetch"
    /\ retries < max_retries
    /\ status # HTTP_OK
    /\ requests' = Append(requests, "response")
    /\ response' = <<status>>
    /\ log' = {<<"warning", "Failed to fetch data", status>>}
    /\ data' = <<>>
    /\ pc' = "merge"
    /\ UNCHANGED <<all_sites, race_vars, db_vars, error, sites, retries, sleeps, raw_data,
                   merge_in, write_to_db, save_history>>

\* lines 88-90, 106: a 200 response whose body r.json() cannot decode
FetchBadJson ==
    /\ pc = "fetch"
    /\ retries < max_retries
    /\ requests' = Append(requests, "response")
    /\ response' = <<HTTP_OK>>
    /\ error' = "JSONDecodeError"
    /\ pc' = "failed"
    /\ UNCHANGED <<all_sites, race_vars, db_vars, log, sites, retries, sleeps, raw_data, data,
                   merge_in, write_to_db, save_history>>

\* lines 88-90, 106-135: a 200 response with payload raw
FetchOk(raw) ==
    /\ pc = "fetch"
    /\ retries < max_retries
    /\ requests' = Append(requests, "response")
    /\ response' = <<HTTP_OK>>
    /\ raw_data' = raw
    /\ LET res == ParsePayload(raw)
       IN  /\ data' = res.data
           /\ log' = res.log
    /\ pc' = "merge"
    /\ UNCHANGED <<all_sites, race_vars, db_vars, error, sites, retries, sleeps, merge_in,
                   write_to_db, save_history>>

\* line 249: step 3, merge_generation_data_with_sites(data, sites)
Merge ==
    /\ pc = "merge"
    /\ merge_in' = data
    /\ data' = merge_generation_data_with_sites(data, sites)
    /\ pc' = "save"
    /\ retries' = 0
    /\ requests' = <<>>
    /\ sleeps' = 0
    /\ raw_data' = <<>>
    /\ UNCHANGED <<all_sites, race_vars, db_vars, error, log, sites, response, write_to_db,
                   save_history>>

\* lines 252-253, 258: data.empty, nothing to write
NoData ==
    /\ pc = "save"
    /\ data = <<>>
    /\ log' = {<<"warning", "No generation data to write">>}
    /\ pc' = "done"
    /\ UNCHANGED <<all_sites, race_vars, db_vars, error, sites, fetch_vars, data, merge_in,
                   write_to_db, save_history>>

\* the store and the history after save_generation_data(session, frame, write)
\* in which insert_generation_values raises for the asset types in fails
Saved(frame, write, fails) ==
    LET res == save_generation_data(capacity_kw, generation, frame, write, fails)
    IN  /\ capacity_kw' = res.cap
        /\ generation' = res.gen
        /\ log' = res.log
        /\ error' = res.exc
        /\ insert_fails' = fails
        /\ cap_before' = capacity_kw
        /\ gen_before' = generation

\* lines 254-258: save_generation_data(session, data, write_to_db)
Save ==
    /\ pc = "save"
    /\ data # <<>>
    /\ \E fails \in SUBSET AssetTypeSet :
          /\ write_to_db \/ fails = {}
          /\ Saved(data, write_to_db, fails)
    /\ pc' = IF error' = "none" THEN "done" ELSE "failed"
    /\ UNCHANGED <<all_sites, race_vars, sites, fetch_vars, data, merge_in, write_to_db>>

(* ----------------------------- direct calls ---------------------------- *)

UnassociatedFrames ==
    SeqsUpTo([asset_type : AssetTypeSet, power_kw : Powers], MaxRows)

\* a direct call merge_generation_data_with_sites(frame, sites), as the tests
\* make it with the sites of the store
CallMerge(frame) ==
    /\ pc = "test_merge"
    /\ merge_in' = frame
    /\ sites' = all_sites
    /\ data' = merge_generation_data_with_sites(frame, all_sites)
    /\ pc' = "merge_returned"
    /\ UNCHANGED <<all_sites, race_vars, db_vars, error, log, fetch_vars, write_to_db,
                   save_history>>

\* a direct call save_generation_data(db_session, frame, write), as the tests make
CallSave(frame, write) ==
    /\ pc = "test_save"
    /\ data' = frame
    /\ write_to_db' = write
    /\ \E fails \in SUBSET AssetTypeSet :
          /\ write \/ fails = {}
          /\ Saved(frame, write, fails)
    /\ pc' = "save_returned"
    /\ UNCHANGED <<all_sites, race_vars, sites, fetch_vars, merge_in>>

Next ==
    \/ GetSites
    \/ (pc = "fetch" /\ \E e \in NetworkErrors : FetchRaises(e))
    \/ (pc = "fetch" /\ \E status \in StatusCodes : FetchBadStatus(status))
    \/ FetchBadJson
    \/ (pc = "fetch" /\ \E raw \in Payloads : FetchOk(raw))
    \/ Merge
    \/ NoData
    \/ Save
    \/ (pc = "test_merge" /\ \E frame \in UnassociatedFrames : CallMerge(frame))
    \/ (pc = "test_save" /\
           \E frame \in AssociatedFrames, write \in BOOLEAN : CallSave(frame, write))

Spec == Init /\ [][Next]_vars

(* --------------- concurrent runs of save_generation_data --------------- *)
(* Two runs of app() with --write-to-db work on the same store, each with   *)
(* its own session.  The code sets no isolation level and takes no lock     *)
(* (no with_for_update, no version column), so a run's query returns the    *)
(* capacity committed when it is made and its commit issues                 *)
(* UPDATE ... SET capacity_kw = max_power for the row it loaded.  A step    *)
(* of a run is one exchange with the database; what the run computes        *)
(* between two exchanges belongs to the step before.                        *)

\* the two pipeline runs
Runs == {"A", "B"}

\* the readings two runs can carry: one more than a single run needs, so that
\* two runs can observe different maxima that both exceed the seeded capacity
RacePowers == {MW_TO_KW * mw : mw \in 0..(MaxMW + 1)}

\* what fetch_data returns for one source: no record, or one record
RaceRecords(asset_type) ==
    {<<>>} \cup {<<[asset_type |-> asset_type, power_kw |-> x]>> : x \in RacePowers}

\* the frames app() hands to save_generation_data on the seeded store: fetched
\* (wind before pv, as asset_map lists them), merged, and not empty
RaceFrames ==
    {merge_generation_data_with_sites(w \o p, FixtureSites) :
        w \in RaceRecords("wind"), p \in RaceRecords("pv")} \ {<<>>}

\* the first index from i on whose asset type has records in frame (the loop
\* skips an empty group with a warning); Len(AssetTypes) + 1 when there is none
NextGroup(frame, i) ==
    LET later == {j \in i..Len(AssetTypes) : AssetData(frame, AssetTypes[j]) # <<>>}
    IN  IF later = {} THEN Len(AssetTypes) + 1
        ELSE CHOOSE j \in later : \A k \in later : j <= k

\* a run whose loop moves on to index i: at the query of the next group that
\* has records, or past the loop
AtGroup(run, i) ==
    LET j == NextGroup(run.data, i)
    IN  [run EXCEPT !.i = j,
                    !.pc = IF j > Len(AssetTypes) THEN "done" ELSE "query"]

\* asset_data of the group a run is at
Group(run) == AssetData(run.data, AssetTypes[run.i])

\* variant: the update is conditional on the committed value
\* (UPDATE ... SET capacity_kw = max_power WHERE capacity_kw < max_power)
CapacityWriteGuarded(committed, max_power) ==
    IF max_power > committed THEN max_power ELSE committed

\* lines 192-193: the committed capacity after site.capacity_kw = max_power and
\* db_session.commit(), whatever was committed before
CapacityWrite(committed, max_power) == max_power

InitRace ==
    /\ pc = "race"
    /\ all_sites = FixtureSites
    /\ capacity_kw = [u \in Uuids |-> SeededCapacity]
    /\ write_to_db = TRUE
    /\ generation = {}
    /\ error = "none"
    /\ log = {}
    /\ sites = FixtureSites
    /\ retries = 0
    /\ requests = <<>>
    /\ response = <<>>
    /\ sleeps = 0
    /\ raw_data = <<>>
    /\ data = <<>>
    /\ merge_in = <<>>
    /\ insert_fails = {}
    /\ cap_before = capacity_kw
    /\ gen_before = generation
    /\ \E frames \in [Runs -> RaceFrames] :
          runs = [p \in Runs |->
                     AtGroup([pc |-> "query", data |-> frames[p], i |-> 1,
                              site_capacity |-> SeededCapacity], 1)]
    /\ cap_commits = <<>>

\* what concurrent runs leave alone
single_run_vars ==
    <<all_sites, pc, error, log, sites, fetch_vars, data, merge_in, write_to_db,
      save_history>>

\* lines 181-192: run p queries the site of its group and compares; when the
\* group's maximum exceeds the capacity read, the new capacity is pending in
\* the session
RunQuery(p) ==
    /\ runs[p].pc = "query"
    /\ LET asset_data == Group(runs[p])
           site_uuid == asset_data[1].site_uuid
           max_power == MaxPower(asset_data)
           site == site_uuid \in DOMAIN capacity_kw
       IN  runs' = [runs EXCEPT
                       ![p].site_capacity =
                           IF site THEN capacity_kw[site_uuid] ELSE @,
                       ![p].pc =
                           IF site /\ max_power > capacity_kw[site_uuid]
                           THEN "commit_capacity" ELSE "insert"]
    /\ UNCHANGED <<single_run_vars, db_vars, cap_commits>>

\* line 193: run p commits the pending capacity
RunCommitCapacity(p) ==
    /\ runs[p].pc = "commit_capacity"
    /\ LET asset_data == Group(runs[p])
           site_uuid == asset_data[1].site_uuid
           max_power == MaxPower(asset_data)
       IN  /\ capacity_kw' =
                  [capacity_kw EXCEPT ![site_uuid] = CapacityWrite(@, max_power)]
           /\ cap_commits' =
                  Append(cap_commits,
                         [run |-> p, site_uuid |-> site_uuid,
                          read |-> runs[p].site_capacity,
                          found |-> capacity_kw[site_uuid],
                          value |-> max_power])
    /\ runs' = [runs EXCEPT ![p].pc = "insert"]
    /\ UNCHANGED <<single_run_vars, generation>>

\* lines 199-200: run p inserts the rows of its group and commits, or
\* insert_generation_values raises and the run ends
RunInsert(p, ok) ==
    /\ runs[p].pc = "insert"
    /\ IF ok
       THEN /\ generation' = generation \cup Rows(Group(runs[p]), AssetTypes[runs[p].i])
            /\ runs' = [runs EXCEPT ![p] = AtGroup(@, @.i + 1)]
       ELSE /\ generation' = generation
            /\ runs' = [runs EXCEPT ![p].pc = "failed"]
    /\ UNCHANGED <<single_run_vars, capacity_kw, cap_commits>>

NextRace ==
    \/ (pc = "race" /\ \E p \in Runs : RunQuery(p))
    \/ (pc = "race" /\ \E p \in Runs : RunCommitCapacity(p))
    \/ (pc = "race" /\ \E p \in Runs, ok \in BOOLEAN : RunInsert(p, ok))

SpecRace == InitRace /\ [][NextRace]_vars

(* ------------------------------ properties ----------------------------- *)

\* save_generation_data has run: called directly, or as the last step of a run
SaveRan ==
    \/ pc = "save_returned"
    \/ (pc = "done" /\ data # <<>>)
    \/ (pc = "failed" /\ error = "InsertError")

\* the asset types whose group of the saved frame is not empty
Groups == {a \in AssetTypeSet : AssetData(data, a) # <<>>}

\* the site a group is associated with: site_uuid of its first row
GroupSite(a) == AssetData(data, a)[1].site_uuid

GroupMax(a) == MaxPower(AssetData(data, a))

\* C1: a call of save_generation_data, with write_to_db true or false and any
\* frame, leaves no site with a smaller capacity than it had when the call was
\* entered (so over calls made one after another capacity never decreases), and
\* a site keeps its capacity when the maximum power of every group associated
\* with it is less than or equal to the capacity it had.
CapacityNeverDecreases ==
    SaveRan =>
        \A u \in Uuids :
            /\ capacity_kw[u] >= cap_before[u]
            /\ (\A a \in Groups : GroupSite(a) = u => GroupMax(a) <= cap_before[u])
                  => capacity_kw[u] = cap_before[u]

\* a call with write_to_db true raised one site and left alone another whose
\* group stayed within its (positive) capacity
W_CapacityNeverDecreases ==
    /\ pc = "save_returned"
    /\ write_to_db
    /\ \E a \in Groups, b \in Groups :
          /\ GroupSite(a) \in Uuids /\ GroupSite(b) \in Uuids
          /\ GroupSite(a) # GroupSite(b)
          /\ GroupMax(a) > 0
          /\ GroupMax(a) <= cap_before[GroupSite(a)]
          /\ capacity_kw[GroupSite(b)] > cap_before[GroupSite(b)]

\* C2: a call of save_generation_data with write_to_db false changes nothing in
\* the store, whatever the frame: no row is inserted and no capacity changes;
\* nothing is raised and each non-empty group is rendered to the log.
DryRunMutatesNothing ==
    (SaveRan /\ ~write_to_db) =>
        /\ generation = gen_before
        /\ capacity_kw = cap_before
        /\ error = "none"
        /\ \A a \in Groups : <<"info", "Generation data", a>> \in log

\* a dry run whose observed power exceeds the capacity of the group's site
W_DryRunMutatesNothing ==
    /\ pc = "save_returned"
    /\ ~write_to_db
    /\ \E a \in Groups :
          GroupSite(a) \in Uuids /\ GroupMax(a) > cap_before[GroupSite(a)]

\* group number i of the loop was reached: no earlier group's insert raised
Reached(i) ==
    \A j \in 1..(i - 1) : AssetTypes[j] \in Groups => AssetTypes[j] \notin insert_fails

\* the largest of cap and the maxima of the reached groups associated with u
Corrected(u, cap) ==
    LET maxima == {cap} \cup {GroupMax(AssetTypes[i]) : i \in
                      {j \in DOMAIN AssetTypes :
                          /\ AssetTypes[j] \in Groups
                          /\ Reached(j)
                          /\ GroupSite(AssetTypes[j]) = u}}
    IN  CHOOSE m \in maxima : \A n \in maxima : n <= m

\* C3: after a call with write_to_db true, every site carries the capacity the
\* corrections of the groups the loop reached give it (the observed maximum,
\* where that exceeds the capacity), committed, whether the inserts of these
\* groups succeeded or raised.
CapacityCommittedBeforeInsert ==
    (SaveRan /\ write_to_db) =>
        \A u \in Uuids : capacity_kw[u] = Corrected(u, cap_before[u])

\* the insert of a group raised and the capacity of its site stays raised to
\* the group's maximum
W_CapacityCommittedBeforeInsert ==
    /\ SaveRan
    /\ write_to_db
    /\ error = "InsertError"
    /\ \E i \in DOMAIN AssetTypes :
          /\ AssetTypes[i] \in Groups
          /\ Reached(i)
          /\ AssetTypes[i] \in insert_fails
          /\ GroupSite(AssetTypes[i]) \in Uuids
          /\ GroupMax(AssetTypes[i]) > cap_before[GroupSite(AssetTypes[i])]
          /\ capacity_kw[GroupSite(AssetTypes[i])] = GroupMax(AssetTypes[i])

\* every request so far raised a timeout
AllTimedOut ==
    /\ requests # <<>>
    /\ \A i \in DOMAIN requests : requests[i] = "ConnectTimeout"

\* fetch_data was entered and has returned or raised
FetchEnded == requests # <<>> /\ pc \in {"merge", "failed"}

TimeoutReturnsEmpty ==
    (AllTimedOut /\ FetchEnded) => (pc = "merge" /\ error = "none" /\ data = <<>>)

\* C6: a network-level failure of a request, connection error or timeout, that
\* is not the max_retries-th one does not end fetch_data: it sleeps and the
\* request is issued again.
NetworkFailuresRetried ==
    \A i \in DOMAIN requests :
        (requests[i] \in NetworkErrors /\ i < max_retries) =>
            /\ (i = Len(requests) => (pc = "fetch" /\ error = "none"))
            /\ sleeps >= i

\* a non-200 response was received in this run
BadStatus == response # <<>> /\ response[1] # HTTP_OK

\* C7: once the endpoint has answered with a status code other than 200 no
\* further request is issued, nothing is raised, the frame is empty, the run
\* goes on to its end ("done") and the store is as it was.
BadStatusIsNoData ==
    BadStatus =>
        /\ pc \in {"merge", "save", "done"}
        /\ error = "none"
        /\ data = <<>>
        /\ pc = "merge" =>
              /\ requests[Len(requests)] = "response"
              /\ \A i \in 1..(Len(requests) - 1) : requests[i] # "response"
        /\ generation = {}
        /\ capacity_kw = cap_before
        /\ (pc = "done" \/ ENABLED (Merge \/ NoData))

\* a run that got a non-200 answer has completed, with nothing to write
W_BadStatusIsNoData ==
    /\ BadStatus
    /\ pc = "done"
    /\ <<"warning", "No generation data to write">> \in log

\* the position belongs to a run of app()
AppRun == pc \in {"get_sites", "fetch", "merge", "save", "done", "failed"}

\* the watched asset types with no site in the target region
Missing ==
    {a \in AssetTypeSet :
        ~ \E i \in DOMAIN all_sites :
            all_sites[i].asset_type = a /\ all_sites[i].region = "ruvnl"}

\* C8 as claimed: with no site for a watched asset type in the target region,
\* the run does not fail: get_sites warns, returns the sites of the other asset
\* types, and the run goes on.
MissingSiteIsSkipped ==
    (AppRun /\ pc # "get_sites" /\ Missing # {}) =>
        /\ error \notin {"AssertionError", "IndexError"}
        /\ \A i \in DOMAIN sites : sites[i].asset_type \notin Missing
        /\ \A a \in AssetTypeSet \ Missing :
              \E i \in DOMAIN sites : sites[i].asset_type = a

\* C8, amended: with no site for a watched asset type in the target region,
\* get_sites logs the warning and raises (AssertionError, or IndexError where
\* asserts are stripped): the run fails there, before any request, and nothing
\* is fetched, associated or persisted for either asset type.
MissingSiteFailsRun ==
    (AppRun /\ pc # "get_sites" /\ Missing # {}) =>
        /\ pc = "failed"
        /\ error \in {"AssertionError", "IndexError"}
        /\ \E a \in Missing : <<"warning", "Could not find site", a>> \in log
        /\ sites = <<>>
        /\ requests = <<>>
        /\ data = <<>>
        /\ generation = {}
        /\ capacity_kw = cap_before

\* the registry has a wind site of the region and no pv site of the region,
\* and get_sites has run
W_MissingSiteFailsRun ==
    /\ AppRun
    /\ pc # "get_sites"
    /\ Missing = {"pv"}
    /\ all_sites # <<>>

\* merge_generation_data_with_sites has run: called directly, or as step 3
MergeRan == pc \in {"merge_returned", "save", "done"} \/ (pc = "failed" /\ SaveRan)

\* the asset types of the sites merge was called with
SiteTypes == {sites[i].asset_type : i \in DOMAIN sites}

\* the records of frame whose asset type has a site
Matching(frame) == SelectSeq(frame, LAMBDA rec : rec.asset_type \in SiteTypes)

\* C9: the result of merge_generation_data_with_sites is its input without the
\* records whose asset type has no site among the sites given, each record
\* kept carrying the identifier of a site of its asset type; and every row a
\* run has inserted carries the identifier of a site of the registry whose
\* asset type is that of the record it came from.
MergeKeepsMatchingRecords ==
    /\ MergeRan =>
          /\ Len(data) = Len(Matching(merge_in))
          /\ \A i \in DOMAIN data :
                /\ data[i].asset_type = Matching(merge_in)[i].asset_type
                /\ data[i].power_kw = Matching(merge_in)[i].power_kw
                /\ \E j \in DOMAIN sites :
                      /\ sites[j].asset_type = data[i].asset_type
                      /\ sites[j].location_uuid = data[i].site_uuid
    /\ AppRun =>
          \A row \in generation :
              \E j \in DOMAIN all_sites :
                  /\ all_sites[j].location_uuid = row.site_uuid
                  /\ all_sites[j].asset_type = row.group

\* a merge that kept a record and dropped another
W_MergeKeepsMatchingRecords ==
    /\ pc = "merge_returned"
    /\ data # <<>>
    /\ Len(data) < Len(merge_in)

\* the records of the payload named k
Named(k) == SelectSeq(raw_data, LAMBDA rec : rec.scada_name = k)

\* fetch_data has returned the frame of a decoded payload
Fetched == pc = "merge" /\ response = <<HTTP_OK>>

\* C10: the frame fetch_data returns for a decoded payload holds, for each of
\* "WIND GEN" (wind) and "SOLAR GEN" (pv), exactly one record when the payload
\* has a record of that name and the power of the first such record is not
\* negative, its power_kw being 1000 times that record's Average2, and no
\* record otherwise; it holds nothing else.
OneRecordPerSource ==
    Fetched =>
        /\ \A e \in {asset_map[i] : i \in DOMAIN asset_map} :
              LET named == Named(e[1])
                  got   == AssetData(data, e[2])
              IN  IF named # <<>> /\ named[1].Average2 >= 0
                  THEN Len(got) = 1 /\ got[1].power_kw = 1000 * named[1].Average2
                  ELSE got = <<>>
        /\ \A i \in DOMAIN data : data[i].asset_type \in {"wind", "pv"}
        /\ Len(data) <= 2

\* both names present, the solar power negative: the wind record alone
W_OneRecordPerSource ==
    /\ Fetched
    /\ Named("WIND GEN") # <<>>
    /\ Named("SOLAR GEN") # <<>>
    /\ Named("SOLAR GEN")[1].Average2 < 0
    /\ Len(data) = 1
    /\ data[1].asset_type = "wind"
    /\ data[1].power_kw = 1000

\* the asset type of the seeded site with location_uuid u
SitesMapInverse(u) ==
    FixtureSites[CHOOSE i \in DOMAIN FixtureSites : FixtureSites[i].location_uuid = u].asset_type

\* the position in cap_commits of the last capacity commit for site u, 0 when
\* no run has committed a capacity for it
LastCommit(u) ==
    LET on_u == {k \in DOMAIN cap_commits : cap_commits[k].site_uuid = u}
    IN  IF on_u = {} THEN 0 ELSE CHOOSE k \in on_u : \A j \in on_u : j <= k

\* C11: with two runs saving concurrently with write_to_db true, the capacity
\* correction is a read followed by an unguarded write: every capacity commit
\* stores the committing run's own group maximum, which exceeded the capacity
\* that run had read, whatever another run committed in between; so a site's
\* committed capacity is always the value of the last commit made for it (the
\* seeded capacity before any), even when an earlier commit stored more.
UnguardedCapacityWrite ==
    pc = "race" =>
        /\ \A k \in DOMAIN cap_commits :
              /\ cap_commits[k].value > cap_commits[k].read
              /\ cap_commits[k].value =
                     MaxPower(AssetData(runs[cap_commits[k].run].data,
                                        SitesMapInverse(cap_commits[k].site_uuid)))
        /\ \A u \in Uuids :
              capacity_kw[u] = IF LastCommit(u) = 0 THEN cap_before[u]
                               ELSE cap_commits[LastCommit(u)].value

\* the lost update: both runs have ended, both had read the same old capacity
\* of a site, the run with the lower maximum committed last, and the site's
\* capacity is below the value the other run had already committed
W_UnguardedCapacityWrite ==
    /\ pc = "race"
    /\ \A p \in Runs : runs[p].pc = "done"
    /\ \E k, l \in DOMAIN cap_commits :
          /\ k < l
          /\ cap_commits[k].run # cap_commits[l].run
          /\ cap_commits[k].site_uuid = cap_commits[l].site_uuid
          /\ cap_commits[k].read = cap_before[cap_commits[k].site_uuid]
          /\ cap_commits[l].read = cap_commits[k].read
          /\ cap_commits[l].found = cap_commits[k].value
          /\ cap_commits[l].value < cap_commits[k].value
          /\ LastCommit(cap_commits[l].site_uuid) = l
          /\ capacity_kw[cap_commits[l].site_uuid] = cap_commits[l].value
          /\ capacity_kw[cap_commits[l].site_uuid] < cap_commits[k].value

====
